---- MODULE Spec2Model ----
(***************************************************************************)
(* SteamVR-Bridge: the publish loop of scripts/run_vr_bridge.py driving    *)
(* SteamVrBridge.update() and ViveController.update() of the               *)
(* steamvr_bridge package.  The OpenXR runtime, the time source and the    *)
(* UDP transport are the environment: every call into them either returns *)
(* or raises, and what they return is drawn from small sets.               *)
(*                                                                         *)
(* Floats are modelled by integers (0 stands for 0.0).                     *)
(*                                                                         *)
(* Two specifications run the same loop: Spec varies the samples, the      *)
(* input frames and the failing query; SessionSpec varies the events.      *)
(* ShutdownSpec is SessionSpec with a client that may call exit().         *)
(***************************************************************************)
EXTENDS Integers, Sequences, FiniteSets, TLC

VARIABLES
    platform,           \* platform.system() of the host
    pc,                 \* position of the single thread of the script
    tick,               \* iterations of the publish loop started so far
    session,            \* SteamVrBridge.session (the handle, or None)
    session_state,      \* SteamVrBridge.session_state
    queue,              \* the runtime's pending event queue (environment)
    arrived,            \* number of events the runtime has produced so far
    produced,           \* the events the runtime has produced so far, in order
    xr_time_now,        \* local of update(): the time token of this tick
    hmd,                \* SteamVrBridge._hmd_position / _hmd_orientation
    ctrl,               \* the two ViveController objects' state fields
    controller_states,  \* the payload dict of the script
    log,                \* every collaborator call issued so far, in order
    updStart,           \* Len(log) when the current update() was entered
    last                \* what the runtime returned in the latest refresh

vars == <<platform, pc, tick, session, session_state, queue, arrived, produced,
          xr_time_now, hmd, ctrl, controller_states, log,
          updStart, last>>

-----------------------------------------------------------------------------
(* Bounds of the model *)

MaxTicks == 2
\* events the runtime produces in a run of SessionSpec, and of Spec
MaxEvents == 2
MaxReady == 1

-----------------------------------------------------------------------------
(* Values of the collaborators *)

Controllers == {"left", "right"}

SESSION == "SESSION"
NULL == "None"

Platforms == {"Linux", "Windows"}

\* xr.SessionState values delivered by the runtime in this model
EventStates == {"READY", "STOPPING", "EXITING"}

SessionStateChanged(s) == [type |-> "EVENT_DATA_SESSION_STATE_CHANGED", state |-> s]
OtherEvent == [type |-> "EVENT_DATA_INTERACTION_PROFILE_CHANGED", state |-> "-"]
Events == {SessionStateChanged(s) : s \in EventStates} \cup {OtherEvent}

Outcomes == {"ok", "raise"}

\* xr.Vector3f() and xr.Quaternionf() as constructed without arguments
Vector3f == <<0, 0, 0>>
Quaternionf == [x |-> 0, y |-> 0, z |-> 0, w |-> 1]

\* location_flags bits of a SpaceLocation
LocationFlags == SUBSET {"ORIENTATION_VALID", "POSITION_VALID"}

\* poses the runtime reports in this model
PoseA == [position |-> <<1, 2, 3>>, orientation |-> [x |-> 0, y |-> 0, z |-> 0, w |-> 1]]
PoseB == [position |-> <<4, 5, 6>>, orientation |-> [x |-> 1, y |-> 0, z |-> 0, w |-> 0]]

SpaceLocation(f, p) == [location_flags |-> f, pose |-> p]

\* the SpaceLocation results of Spec: every flag combination, each pose both
\* with and without the position-valid bit
SpaceLocations ==
    { SpaceLocation({"ORIENTATION_VALID", "POSITION_VALID"}, PoseA),
      SpaceLocation({"POSITION_VALID"}, PoseB),
      SpaceLocation({"ORIENTATION_VALID"}, PoseA),
      SpaceLocation({}, PoseB) }

\* the one SpaceLocation result of SessionSpec
TrackedLocations == { SpaceLocation({"ORIENTATION_VALID", "POSITION_VALID"}, PoseA) }

\* the six action states the runtime reports for one controller in one tick
FrameA ==
    [_menu_button |-> TRUE, _trackpad_x |-> 1, _trackpad_y |-> 2,
     _trackpad_button |-> FALSE, _trigger |-> 3, _grip_button |-> TRUE]
FrameB ==
    [_menu_button |-> FALSE, _trackpad_x |-> 2, _trackpad_y |-> 3,
     _trackpad_button |-> TRUE, _trigger |-> 0, _grip_button |-> TRUE]

InputFrames == {FrameA, FrameB}

\* the order in which ViveController.update() queries the inputs
InputFields ==
    <<"_menu_button", "_trackpad_x", "_trackpad_y", "_trackpad_button",
      "_trigger", "_grip_button">>

InputOps ==
    <<"get_action_state_boolean", "get_action_state_float", "get_action_state_float",
      "get_action_state_boolean", "get_action_state_float", "get_action_state_boolean">>

NInputs == Len(InputFields)

\* a plain Python value (bool, float): it has no attribute current_state
PyValue(v) == [value |-> v]
\* an xr.ActionStateBoolean / xr.ActionStateFloat returned by the runtime
ActionState(v) == [current_state |-> v]

\* one entry of the call log
Call(op, sess, who, t, r) == [op |-> op, sess |-> sess, who |-> who, t |-> t, r |-> r]

\* the frame recorded when a refresh polled no input
NoFrame ==
    [_menu_button |-> FALSE, _trackpad_x |-> 0, _trackpad_y |-> 0,
     _trackpad_button |-> FALSE, _trigger |-> 0, _grip_button |-> FALSE]

NoRefresh ==
    [who |-> "-", location_flags |-> {},
     pose |-> [position |-> Vector3f, orientation |-> Quaternionf],
     frame |-> NoFrame, n |-> 0]

-----------------------------------------------------------------------------
(* ViveController *)

ViveController_init ==
    [ _position |-> Vector3f,
      _orientation |-> Quaternionf,
      _menu_button |-> PyValue(FALSE),
      _trackpad_x |-> PyValue(0),
      _trackpad_y |-> PyValue(0),
      _trackpad_button |-> PyValue(FALSE),
      _trigger |-> PyValue(0),
      _grip_button |-> PyValue(FALSE) ]

\* variant: either valid bit lets the sample in
StorePoseEitherFlag(self, space_location) ==
    IF space_location.location_flags # {}
    THEN [self EXCEPT !._position = space_location.pose.position,
                      !._orientation = space_location.pose.orientation]
    ELSE self

\* variant: an untracked sample zeroes the pose
StorePoseZeroing(self, space_location) ==
    IF "POSITION_VALID" \in space_location.location_flags
    THEN [self EXCEPT !._position = space_location.pose.position,
                      !._orientation = space_location.pose.orientation]
    ELSE [self EXCEPT !._position = Vector3f, !._orientation = Quaternionf]

\* variant: the orientation is stored only under the orientation-valid bit
StorePoseOrientationGated(self, space_location) ==
    IF "POSITION_VALID" \in space_location.location_flags
    THEN [self EXCEPT !._position = space_location.pose.position,
                      !._orientation =
                          IF "ORIENTATION_VALID" \in space_location.location_flags
                          THEN space_location.pose.orientation ELSE @]
    ELSE self

\* lines 176-183: the pose is replaced only under the position-valid bit
StorePose(self, space_location) ==
    IF "POSITION_VALID" \in space_location.location_flags
    THEN [self EXCEPT !._position = space_location.pose.position,
                      !._orientation = space_location.pose.orientation]
    ELSE self

\* variant: the inputs are committed only when all queries have returned
StoreInputsAllOrNothing(self, frame, n) ==
    [f \in DOMAIN self |->
        IF n = NInputs /\ \E i \in 1..n : InputFields[i] = f
        THEN ActionState(frame[f])
        ELSE self[f]]

\* variant: the trigger query's result is dropped
StoreInputsStaleTrigger(self, frame, n) ==
    [f \in DOMAIN self |->
        IF f # "_trigger" /\ \E i \in 1..n : InputFields[i] = f
        THEN ActionState(frame[f])
        ELSE self[f]]

\* lines 185-208: the first n input queries have returned and were assigned
StoreInputs(self, frame, n) ==
    [f \in DOMAIN self |->
        IF \E i \in 1..n : InputFields[i] = f
        THEN ActionState(frame[f])
        ELSE self[f]]

\* a property getter reading <field>.current_state
GetCurrentState(field) ==
    IF "current_state" \in DOMAIN field
    THEN [exc |-> "none", val |-> field.current_state]
    ELSE [exc |-> "AttributeError", val |-> field.value]

position(c) == ctrl[c]._position
orientation(c) == ctrl[c]._orientation
menu_button(c) == GetCurrentState(ctrl[c]._menu_button)
trackpad_x(c) == GetCurrentState(ctrl[c]._trackpad_x)
trackpad_y(c) == GetCurrentState(ctrl[c]._trackpad_y)
trackpad_button(c) == GetCurrentState(ctrl[c]._trackpad_button)
trigger(c) == GetCurrentState(ctrl[c]._trigger)
grip_button(c) == GetCurrentState(ctrl[c]._grip_button)

\* the calls ViveController.update() issues when n input queries return
\* (n = NInputs: all of them; n < NInputs: query n+1 raises)
ControllerCalls(c, sess, t, n) ==
    <<Call("locate_space", "-", c, t, "ok")>>
    \o [i \in 1..(IF n < NInputs THEN n + 1 ELSE NInputs) |->
          Call(InputOps[i], sess, c, 0, IF i <= n THEN "ok" ELSE "raise")]

-----------------------------------------------------------------------------
(* Initial state: after SteamVrBridge() and the script's set-up *)

controller_states_init ==
    [c \in Controllers |-> [pose |-> <<>>, button_pressed |-> FALSE, trigger |-> 0]]

Init ==
    /\ platform \in Platforms
    /\ pc = "loop"
    /\ tick = 0
    /\ session = SESSION
    /\ session_state = "UNKNOWN"
    /\ queue = <<>>
    /\ arrived = 0
    /\ produced = <<>>
    /\ xr_time_now = 0
    /\ hmd = [_hmd_position |-> Vector3f, _hmd_orientation |-> Quaternionf]
    /\ ctrl = [c \in Controllers |-> ViveController_init]
    /\ controller_states = controller_states_init
    /\ log = <<>>
    /\ updStart = 0
    /\ last = NoRefresh

-----------------------------------------------------------------------------
(* Platform time source *)

\* LinuxPerformanceCounter.get() returns the token when the conversion succeeds
\* and raises its error otherwise
LinuxPerformanceCounter_get(result) == result

\* WindowsPerformanceCounter.get() calls time_from_perf_counter(self.instance,
\* self.pc_time): one positional argument too many, a TypeError before the
\* conversion is reached
WindowsPerformanceCounter_get(result) == "TypeError"

PerformanceCounter_get(plat, result) ==
    IF plat = "Windows"
    THEN WindowsPerformanceCounter_get(result)
    ELSE LinuxPerformanceCounter_get(result)

-----------------------------------------------------------------------------
(* SteamVrBridge.update() *)

Raise == pc' = "raised"

\* variant: the STOPPING branch is missing
StateChangedCallReadyOnly(state) ==
    IF state = "READY" THEN "begin_session" ELSE "none"

\* variant: EXITING releases the session as STOPPING does
StateChangedCallExitingToo(state) ==
    IF state = "READY" THEN "begin_session"
    ELSE IF state \in {"STOPPING", "EXITING"} THEN "destroy_session"
    ELSE "none"

\* variant: the READY branch is missing
StateChangedCallStoppingOnly(state) ==
    IF state = "STOPPING" THEN "destroy_session" ELSE "none"

\* lines 130-140: the call the drain makes for a session-state-changed event
StateChangedCall(state) ==
    IF state = "READY" THEN "begin_session"
    ELSE IF state = "STOPPING" THEN "destroy_session"
    ELSE "none"

\* variant: the handle is kept after destroy_session
SessionAfterKeep(op, sess) == sess

\* lines 139-140: the handle after the call of the handler has returned
SessionAfter(op, sess) ==
    IF op = "destroy_session" THEN NULL ELSE sess

\* variant: only the states that have a handler are recorded
SessionStateOfHandledOnly(e) ==
    IF e.state \in {"READY", "STOPPING"} THEN e.state ELSE "UNKNOWN"

\* line 126: self.session_state = xr.SessionState(event.state)
SessionStateOf(e) == e.state

\* the name under which a polled event is logged
EventName(e) ==
    IF e.type = "EVENT_DATA_SESSION_STATE_CHANGED" THEN e.state ELSE e.type

\* variant: the loop ends once the session handle is None
LoopIterWhileSession ==
    /\ pc = "loop"
    /\ session # NULL
    /\ tick < MaxTicks
    /\ pc' = "poll_event"
    /\ tick' = tick + 1
    /\ updStart' = Len(log)
    /\ last' = NoRefresh
    /\ UNCHANGED <<platform, session, session_state, queue, arrived, produced, xr_time_now,
                   hmd, ctrl, controller_states, log>>

\* variant: the next update() starts while the send is still pending
LoopIterBeforeSendReturns ==
    /\ pc \in {"loop", "send"}
    /\ tick < MaxTicks
    /\ pc' = "poll_event"
    /\ tick' = tick + 1
    /\ updStart' = Len(log)
    /\ last' = NoRefresh
    /\ UNCHANGED <<platform, session, session_state, queue, arrived, produced, xr_time_now,
                   hmd, ctrl, controller_states, log>>

\* the script's `while True:` enters update()
LoopIter ==
    /\ pc = "loop"
    /\ tick < MaxTicks
    /\ pc' = "poll_event"
    /\ tick' = tick + 1
    /\ updStart' = Len(log)
    /\ last' = NoRefresh
    /\ UNCHANGED <<platform, session, session_state, queue, arrived, produced, xr_time_now,
                   hmd, ctrl, controller_states, log>>

\* the runtime queues an event.  The program sees the queue only through
\* poll_event, so an event queued later in a tick is one queued before the
\* next tick's first poll.
Arrive(E, max) ==
    /\ pc = "poll_event"
    /\ arrived < max
    /\ \E e \in E :
          /\ queue' = Append(queue, e)
          /\ produced' = Append(produced, e)
    /\ arrived' = arrived + 1
    /\ UNCHANGED <<platform, pc, tick, session, session_state, xr_time_now, hmd,
                   ctrl, controller_states, log, updStart, last>>

\* variant: the drain handles one event and leaves the loop
DrainOnce == "wait_frame"

\* line 117, `while True:`: after an event is handled the drain polls again
DrainNext == "poll_event"

\* one iteration of the drain loop, lines 117-142
PollEvent ==
    /\ pc = "poll_event"
    /\ \/ \* poll_event raises something other than EventUnavailable
          /\ log' = Append(log, Call("poll_event", "-", "-", 0, "raise"))
          /\ Raise
          /\ UNCHANGED <<queue, session, session_state>>
       \/ \* EventUnavailable: break
          /\ queue = <<>>
          /\ log' = Append(log, Call("poll_event", "-", "-", 0, "EventUnavailable"))
          /\ pc' = "wait_frame"
          /\ UNCHANGED <<queue, session, session_state>>
       \/ /\ queue # <<>>
          /\ queue' = Tail(queue)
          /\ LET e == Head(queue)
                 polled == Call("poll_event", "-", "-", 0, EventName(e))
             IN IF e.type = "EVENT_DATA_SESSION_STATE_CHANGED"
                THEN /\ session_state' = SessionStateOf(e)
                     /\ LET op == StateChangedCall(e.state)
                        IN IF op = "none"
                           THEN /\ log' = Append(log, polled)
                                /\ pc' = DrainNext
                                /\ UNCHANGED session
                           ELSE \E o \in Outcomes :
                                /\ log' = log \o <<polled, Call(op, session, "-", 0, o)>>
                                /\ IF o = "ok"
                                   THEN /\ session' = SessionAfter(op, session)
                                        /\ pc' = DrainNext
                                   ELSE /\ UNCHANGED session
                                        /\ Raise
                ELSE /\ log' = Append(log, polled)
                     /\ pc' = DrainNext
                     /\ UNCHANGED <<session, session_state>>
    /\ UNCHANGED <<platform, tick, arrived, produced, xr_time_now, hmd, ctrl,
                   controller_states, updStart, last>>

\* variant: wait_frame is called only once a session state has been received
WaitFrameWhenStateKnown ==
    /\ pc = "wait_frame"
    /\ IF session_state = "UNKNOWN"
       THEN /\ pc' = "get_time"
            /\ UNCHANGED log
       ELSE \E o \in Outcomes :
               /\ log' = Append(log, Call("wait_frame", session, "-", 0, o))
               /\ IF o = "ok" THEN pc' = "get_time" ELSE Raise
    /\ UNCHANGED <<platform, tick, session, session_state, queue, arrived, produced,
                   xr_time_now, hmd, ctrl, controller_states, updStart, last>>

\* variant: update() returns when the handle is None
WaitFrameGuarded ==
    /\ pc = "wait_frame"
    /\ IF session = NULL
       THEN /\ pc' = "build"
            /\ UNCHANGED log
       ELSE \E o \in Outcomes :
               /\ log' = Append(log, Call("wait_frame", session, "-", 0, o))
               /\ IF o = "ok" THEN pc' = "get_time" ELSE Raise
    /\ UNCHANGED <<platform, tick, session, session_state, queue, arrived, produced,
                   xr_time_now, hmd, ctrl, controller_states, updStart, last>>

\* line 145
WaitFrame ==
    /\ pc = "wait_frame"
    /\ \E o \in Outcomes :
          /\ log' = Append(log, Call("wait_frame", session, "-", 0, o))
          /\ IF o = "ok" THEN pc' = "get_time" ELSE Raise
    /\ UNCHANGED <<platform, tick, session, session_state, queue, arrived, produced,
                   xr_time_now, hmd, ctrl, controller_states, updStart, last>>

\* line 147; the token of a tick is the tick's number
GetTime ==
    /\ pc = "get_time"
    /\ \E result \in Outcomes :
          LET r == PerformanceCounter_get(platform, result)
          IN /\ log' = Append(log, Call("performance_counter.get", "-", "-", 0, r))
             /\ IF r = "ok"
                THEN /\ xr_time_now' = tick
                     /\ pc' = "sync_actions"
                ELSE /\ UNCHANGED xr_time_now
                     /\ Raise
    /\ UNCHANGED <<platform, tick, session, session_state, queue, arrived, produced,
                   hmd, ctrl, controller_states, updStart, last>>

\* variant: update() samples only in a session that was reported READY
SyncActionsWhenReady ==
    /\ pc = "sync_actions"
    /\ IF session_state = "READY"
       THEN \E o \in Outcomes :
               /\ log' = Append(log, Call("sync_actions", session, "-", 0, o))
               /\ IF o = "ok" THEN pc' = "locate_hmd" ELSE Raise
       ELSE /\ pc' = "build"
            /\ UNCHANGED log
    /\ UNCHANGED <<platform, tick, session, session_state, queue, arrived, produced,
                   xr_time_now, hmd, ctrl, controller_states, updStart, last>>

\* variant: an error of sync_actions is swallowed
SyncActionsSwallowed ==
    /\ pc = "sync_actions"
    /\ \E o \in Outcomes :
          /\ log' = Append(log, Call("sync_actions", session, "-", 0, o))
          /\ pc' = "locate_hmd"
    /\ UNCHANGED <<platform, tick, session, session_state, queue, arrived, produced,
                   xr_time_now, hmd, ctrl, controller_states, updStart, last>>

\* lines 150-159
SyncActions ==
    /\ pc = "sync_actions"
    /\ \E o \in Outcomes :
          /\ log' = Append(log, Call("sync_actions", session, "-", 0, o))
          /\ IF o = "ok" THEN pc' = "locate_hmd" ELSE Raise
    /\ UNCHANGED <<platform, tick, session, session_state, queue, arrived, produced,
                   xr_time_now, hmd, ctrl, controller_states, updStart, last>>

\* variant: the headset pose is stored whatever the flags are
StoreHmdUngated(self, hmd_state) ==
    [_hmd_position |-> hmd_state.pose.position,
     _hmd_orientation |-> hmd_state.pose.orientation]

\* lines 167-169
StoreHmd(self, hmd_state) ==
    IF "POSITION_VALID" \in hmd_state.location_flags
    THEN [_hmd_position |-> hmd_state.pose.position,
          _hmd_orientation |-> hmd_state.pose.orientation]
    ELSE self

\* lines 162-169
LocateHmd(L) ==
    /\ pc = "locate_hmd"
    /\ \/ /\ log' = Append(log, Call("locate_space", "-", "hmd", xr_time_now, "raise"))
          /\ Raise
          /\ UNCHANGED <<hmd, last>>
       \/ \E hmd_state \in L :
          /\ log' = Append(log, Call("locate_space", "-", "hmd", xr_time_now, "ok"))
          /\ hmd' = StoreHmd(hmd, hmd_state)
          /\ last' = [who |-> "hmd", location_flags |-> hmd_state.location_flags,
                      pose |-> hmd_state.pose, frame |-> NoFrame, n |-> 0]
          /\ pc' = "left"
    /\ UNCHANGED <<platform, tick, session, session_state, queue, arrived, produced,
                   xr_time_now, ctrl, controller_states, updStart>>

\* variant: only the first controller is refreshed
NextAfterLeftOnly(c) == "build"

\* self.controllers, line 63, in iteration order
NextAfter(c) == IF c = "left" THEN "right" ELSE "build"

\* ViveController.update(session, xr_time_now), called from lines 172-173
ControllerUpdate(c, L, F, N) ==
    /\ pc = c
    /\ \/ /\ log' = Append(log, Call("locate_space", "-", c, xr_time_now, "raise"))
          /\ Raise
          /\ UNCHANGED <<ctrl, last>>
       \/ \E space_location \in L, frame \in F, n \in N :
          /\ log' = log \o ControllerCalls(c, session, xr_time_now, n)
          /\ ctrl' = [ctrl EXCEPT ![c] = StoreInputs(StorePose(@, space_location), frame, n)]
          /\ last' = [who |-> c, location_flags |-> space_location.location_flags,
                      pose |-> space_location.pose, frame |-> frame, n |-> n]
          /\ IF n = NInputs THEN pc' = NextAfter(c) ELSE Raise
    /\ UNCHANGED <<platform, tick, session, session_state, queue, arrived, produced,
                   xr_time_now, hmd, controller_states, updStart>>

-----------------------------------------------------------------------------
(* Pose transform and payload, run_vr_bridge.py lines 495-518 *)

\* np.eye(n)
eye(n) == [i \in 1..n |-> [j \in 1..n |-> IF i = j THEN 1 ELSE 0]]

\* scipy's Rotation.from_quat(q): q is read scalar-last, as (x, y, z, w)
from_quat(q) == [x |-> q[1], y |-> q[2], z |-> q[3], w |-> q[4]]

\* scipy's Rotation.as_matrix() of the normalised quaternion
as_matrix(r) ==
    LET x == r.x
        y == r.y
        z == r.z
        w == r.w
        n == x*x + y*y + z*z + w*w
    IN << << (x*x - y*y - z*z + w*w) \div n, (2*(x*y - z*w)) \div n, (2*(x*z + y*w)) \div n >>,
          << (2*(x*y + z*w)) \div n, (y*y - x*x - z*z + w*w) \div n, (2*(y*z - x*w)) \div n >>,
          << (2*(x*z - y*w)) \div n, (2*(y*z + x*w)) \div n, (z*z - x*x - y*y + w*w) \div n >> >>

\* m[:3, :3] = r
SetBlock(m, r) ==
    [i \in 1..4 |-> [j \in 1..4 |-> IF i <= 3 /\ j <= 3 THEN r[i][j] ELSE m[i][j]]]

\* m[:, 0:3] = v : numpy broadcasts the 3-vector over every row
SetColumns(m, v) ==
    [i \in 1..4 |-> [j \in 1..4 |-> IF j <= 3 THEN v[j] ELSE m[i][j]]]

\* lines 497-502: the array handed to from_quat
QuatArray(o) == <<o.w, o.x, o.y, o.z>>

\* lines 496-503 (left) and 504-511 (right)
rot_matrix(c) ==
    SetColumns(SetBlock(eye(4), as_matrix(from_quat(QuatArray(orientation(c))))),
               position(c))

\* lines 513-518: the reads and assignments in program order; a getter that
\* raises ends the tick with the earlier assignments done
PayloadSteps ==
    << [c |-> "left",  key |-> "button_pressed"],
       [c |-> "right", key |-> "button_pressed"],
       [c |-> "left",  key |-> "trigger"],
       [c |-> "right", key |-> "trigger"] >>

\* variant: button_pressed is read from the menu button
PayloadReadMenu(step) ==
    IF step.key = "button_pressed" THEN menu_button(step.c) ELSE trigger(step.c)

PayloadRead(step) ==
    IF step.key = "button_pressed" THEN grip_button(step.c) ELSE trigger(step.c)

\* number of steps of PayloadSteps that complete
PayloadDone ==
    IF \E i \in 1..Len(PayloadSteps) : PayloadRead(PayloadSteps[i]).exc # "none"
    THEN (CHOOSE i \in 1..Len(PayloadSteps) :
            /\ PayloadRead(PayloadSteps[i]).exc # "none"
            /\ \A j \in 1..(i - 1) : PayloadRead(PayloadSteps[j]).exc = "none") - 1
    ELSE Len(PayloadSteps)

\* variant: a controller that holds no tracked position is left out
BuildPayloadTrackedOnly(cs) ==
    [c \in {d \in DOMAIN cs : position(d) # Vector3f} |->
        [k \in DOMAIN cs[c] |->
            IF k = "pose" THEN rot_matrix(c)
            ELSE PayloadRead([c |-> c, key |-> k]).val]]

BuildPayload(cs) ==
    [c \in DOMAIN cs |->
        [k \in DOMAIN cs[c] |->
            IF k = "pose" THEN rot_matrix(c)
            ELSE IF \E i \in 1..PayloadDone : PayloadSteps[i] = [c |-> c, key |-> k]
                 THEN PayloadRead([c |-> c, key |-> k]).val
                 ELSE cs[c][k]]]

Build ==
    /\ pc = "build"
    /\ controller_states' = BuildPayload(controller_states)
    /\ last' = NoRefresh
    /\ IF PayloadDone = Len(PayloadSteps) THEN pc' = "send" ELSE Raise
    /\ UNCHANGED <<platform, tick, session, session_state, queue, arrived, produced,
                   xr_time_now, hmd, ctrl, log, updStart>>

\* variant: a failed send is tried again
SendRetry ==
    /\ pc = "send"
    /\ \E o \in Outcomes :
          /\ log' = Append(log, Call("send_dict", "-", "-", 0, o))
          /\ pc' = IF o = "ok" THEN "loop" ELSE "send"
    /\ UNCHANGED <<platform, tick, session, session_state, queue, arrived, produced,
                   xr_time_now, hmd, ctrl, controller_states, updStart, last>>

\* line 522: udp.send_dict(controller_states)
Send ==
    /\ pc = "send"
    /\ \E o \in Outcomes :
          /\ log' = Append(log, Call("send_dict", "-", "-", 0, o))
          /\ IF o = "ok" THEN pc' = "loop" ELSE Raise
    /\ UNCHANGED <<platform, tick, session, session_state, queue, arrived, produced,
                   xr_time_now, hmd, ctrl, controller_states, updStart, last>>

-----------------------------------------------------------------------------

\* Spec: the loop with every sample, frame and failing query, and a runtime
\* that announces READY
Next ==
    \/ LoopIter
    \/ Arrive({SessionStateChanged("READY")}, MaxReady)
    \/ PollEvent
    \/ WaitFrame
    \/ GetTime
    \/ SyncActions
    \/ LocateHmd(SpaceLocations)
    \/ ControllerUpdate("left", SpaceLocations, InputFrames, 0..NInputs)
    \/ ControllerUpdate("right", SpaceLocations, InputFrames, 0..NInputs)
    \/ Build
    \/ Send

Spec == Init /\ [][Next]_vars

\* SessionSpec: the loop with every event of Events, and one tracked sample
SessionNext ==
    \/ LoopIter
    \/ Arrive(Events, MaxEvents)
    \/ PollEvent
    \/ WaitFrame
    \/ GetTime
    \/ SyncActions
    \/ LocateHmd(TrackedLocations)
    \/ ControllerUpdate("left", TrackedLocations, {FrameA}, {NInputs})
    \/ ControllerUpdate("right", TrackedLocations, {FrameA}, {NInputs})
    \/ Build
    \/ Send

SessionSpec == Init /\ [][SessionNext]_vars

-----------------------------------------------------------------------------
(* SteamVrBridge.exit(), and a client of the class that calls it *)

\* lines 175-178: exit() releases the action set, then the instance
Exit ==
    /\ pc = "loop"
    /\ \/ /\ log' = Append(log, Call("destroy_action_set", "-", "-", 0, "raise"))
          /\ Raise
       \/ \E o \in Outcomes :
             /\ log' = log \o <<Call("destroy_action_set", "-", "-", 0, "ok"),
                                Call("destroy_instance", "-", "-", 0, o)>>
             /\ IF o = "ok" THEN pc' = "exited" ELSE Raise
    /\ UNCHANGED <<platform, tick, session, session_state, queue, arrived, produced,
                   xr_time_now, hmd, ctrl, controller_states, updStart, last>>

\* ShutdownSpec: the loop of SessionSpec run by a client that may call exit()
\* between two ticks instead of going on
ShutdownNext ==
    \/ LoopIter
    \/ Arrive(Events, MaxEvents)
    \/ PollEvent
    \/ WaitFrame
    \/ GetTime
    \/ SyncActions
    \/ LocateHmd(TrackedLocations)
    \/ ControllerUpdate("left", TrackedLocations, {FrameA}, {NInputs})
    \/ ControllerUpdate("right", TrackedLocations, {FrameA}, {NInputs})
    \/ Build
    \/ Send
    \/ Exit

ShutdownSpec == Init /\ [][ShutdownNext]_vars

-----------------------------------------------------------------------------
(* Helpers of the properties *)

\* the calls of the update() in progress (or the latest one)
ThisUpdate == SubSeq(log, updStart + 1, Len(log))

IsSessionStatePoll(e) == e.op = "poll_event" /\ e.r \in EventStates

\* the session states drained so far by this update(), in order
DrainedStates ==
    LET polls == SelectSeq(ThisUpdate, IsSessionStatePoll)
    IN [i \in DOMAIN polls |-> polls[i].r]

CountOp(seq, op) == Cardinality({i \in DOMAIN seq : seq[i].op = op})

\* the payload in controller_states is the one the latest call handed to the transport
PayloadHanded == log # <<>> /\ log[Len(log)].op = "send_dict"

NeverRefreshed(c) ==
    \A i \in DOMAIN log : ~(log[i].op = "locate_space" /\ log[i].who = c)

Returned(v) == [exc |-> "none", val |-> v]

QueryOps ==
    {"locate_space", "get_action_state_boolean", "get_action_state_float", "sync_actions"}

-----------------------------------------------------------------------------
(* Properties *)

\* C1: a refresh whose sample lacks the position-valid flag leaves the
\* snapshot's position and orientation as they were before the call.
C1_StalePoseKept ==
    [][\A c \in Controllers :
          (pc = c /\ last'.who = c /\ "POSITION_VALID" \notin last'.location_flags)
          => /\ ctrl'[c]._position = ctrl[c]._position
             /\ ctrl'[c]._orientation = ctrl[c]._orientation]_vars

\* an untracked sample of pose B has been refreshed into a snapshot holding pose A
C1_Witness ==
    /\ tick = 2
    /\ last.who = "left"
    /\ "POSITION_VALID" \notin last.location_flags
    /\ last.pose = PoseB
    /\ position("left") = PoseA.position

\* C2: after a refresh whose sample carries the position-valid flag, position
\* and orientation are those of the sample.
C2_ValidPoseStored ==
    \A c \in Controllers :
        (last.who = c /\ "POSITION_VALID" \in last.location_flags)
        => /\ position(c) = last.pose.position
           /\ orientation(c) = last.pose.orientation

\* pose B, position-valid only, has replaced pose A of the tick before
C2_Witness ==
    /\ tick = 2
    /\ last.who = "left"
    /\ last.location_flags = {"POSITION_VALID"}
    /\ last.pose = PoseB
    /\ controller_states["left"].pose[1] = <<1, 2, 3, 0>>

\* C3: after a completed refresh every getter returns the value polled in that
\* refresh, whether or not the pose sample was valid.
C3_InputsOverwritten ==
    \A c \in Controllers :
        (last.who = c /\ last.n = NInputs)
        => /\ menu_button(c) = Returned(last.frame._menu_button)
           /\ trackpad_button(c) = Returned(last.frame._trackpad_button)
           /\ grip_button(c) = Returned(last.frame._grip_button)
           /\ trackpad_x(c) = Returned(last.frame._trackpad_x)
           /\ trackpad_y(c) = Returned(last.frame._trackpad_y)
           /\ trigger(c) = Returned(last.frame._trigger)

\* frame B has replaced frame A of the tick before, in a refresh with an untracked pose
C3_Witness ==
    /\ tick = 2
    /\ last.who = "right"
    /\ last.n = NInputs
    /\ "POSITION_VALID" \notin last.location_flags
    /\ last.frame = FrameB
    /\ controller_states["right"].trigger = FrameA._trigger

\* C4: on a controller that was never refreshed the button getters return
\* false and the axis getters 0.0, without raising.
C4_DefaultsBeforeFirstRefresh ==
    \A c \in Controllers :
        NeverRefreshed(c)
        => /\ menu_button(c) = Returned(FALSE)
           /\ trackpad_button(c) = Returned(FALSE)
           /\ grip_button(c) = Returned(FALSE)
           /\ trackpad_x(c) = Returned(0)
           /\ trackpad_y(c) = Returned(0)
           /\ trigger(c) = Returned(0)

\* C5: every payload handed to the transport has exactly the keys left and right.
C5_BothControllersInPayload ==
    PayloadHanded => DOMAIN controller_states = {"left", "right"}

\* a payload was handed over while neither controller ever had a tracked sample
C5_Witness ==
    /\ PayloadHanded
    /\ \A c \in Controllers : position(c) = Vector3f

Is4x4(m) == DOMAIN m = 1..4 /\ \A i \in 1..4 : DOMAIN m[i] = 1..4

\* C6 as stated: per controller the payload holds the matrix and six input readings.
C6_SixReadingsInPayload ==
    PayloadHanded =>
        \A c \in DOMAIN controller_states :
            Cardinality(DOMAIN controller_states[c] \ {"pose"}) = 6

\* C6 as amended: per controller the payload holds a 4x4 matrix under pose, the
\* grip button reading under button_pressed and the trigger reading under
\* trigger, and nothing else.
C6_PosePlusGripAndTrigger ==
    PayloadHanded =>
        \A c \in Controllers :
            /\ DOMAIN controller_states[c] = {"pose", "button_pressed", "trigger"}
            /\ Is4x4(controller_states[c].pose)
            /\ Returned(controller_states[c].button_pressed) = grip_button(c)
            /\ Returned(controller_states[c].trigger) = trigger(c)

\* a handed payload carrying the readings of frame B on the left, frame A on the right
C6_Witness ==
    /\ PayloadHanded
    /\ ctrl["left"]._menu_button = ActionState(FALSE)
    /\ controller_states["left"].button_pressed = TRUE
    /\ controller_states["left"].trigger = FrameB._trigger
    /\ controller_states["right"].trigger = FrameA._trigger

\* C7: the pose matrix holds the position in column index 3, rows 0 to 2, the
\* rotation matrix of the snapshot's quaternion in the upper-left block, and
\* 0,0,0,1 as its bottom row.
C7_PoseMatrixLayout ==
    PayloadHanded =>
        \A c \in Controllers :
            LET m == controller_states[c].pose
                r == as_matrix(orientation(c))
            IN /\ \A i \in 1..3 : m[i][4] = position(c)[i]
               /\ \A i \in 1..3 : \A j \in 1..3 : m[i][j] = r[i][j]
               /\ m[4] = <<0, 0, 0, 1>>

\* C8: position (1,2,3) with the identity orientation yields the identity
\* rotation block and the translation column (1,2,3).
C8_IdentityScenario ==
    PayloadHanded =>
        \A c \in Controllers :
            (position(c) = <<1, 2, 3>> /\ orientation(c) = [x |-> 0, y |-> 0, z |-> 0, w |-> 1])
            => LET m == controller_states[c].pose
               IN /\ \A i \in 1..3 : \A j \in 1..3 : m[i][j] = eye(3)[i][j]
                  /\ <<m[1][4], m[2][4], m[3][4]>> = <<1, 2, 3>>

\* C9: when one update() drains exactly READY then STOPPING, it calls
\* begin_session once and destroy_session once, begin first.
C9_BeginThenDestroyOnce ==
    DrainedStates = <<"READY", "STOPPING">>
    => /\ CountOp(ThisUpdate, "begin_session") = 1
       /\ CountOp(ThisUpdate, "destroy_session") = 1
       /\ \E i \in DOMAIN ThisUpdate : \E j \in DOMAIN ThisUpdate :
             /\ i < j
             /\ ThisUpdate[i].op = "begin_session"
             /\ ThisUpdate[j].op = "destroy_session"

\* the drain of one update() has ended after READY and STOPPING
C9_Witness ==
    /\ DrainedStates = <<"READY", "STOPPING">>
    /\ pc = "wait_frame"
    /\ session = NULL

\* C10: after a STOPPING notification was polled, no locate_space, action-state
\* query or sync_actions is issued any more.
C10_NoQueryAfterStopping ==
    \A i \in DOMAIN log : \A j \in DOMAIN log :
        (i < j /\ log[i].op = "poll_event" /\ log[i].r = "STOPPING")
        => log[j].op \notin QueryOps

\* the latest collaborator call is op, and it ended with r
LastCallIs(op, r) ==
    log # <<>> /\ log[Len(log)].op = op /\ log[Len(log)].r = r

\* C11: when send_dict raises, the error stays inside the publish step and the
\* loop goes on to its next iteration.
C11_SendErrorContained ==
    LastCallIs("send_dict", "raise") => pc = "loop"

\* the update() in progress (or the latest one) has run to its end: the last
\* input query of the right controller has returned
UpdateCompleted ==
    Cardinality({i \in DOMAIN ThisUpdate :
                    /\ ThisUpdate[i].who = "right"
                    /\ ThisUpdate[i].op # "locate_space"
                    /\ ThisUpdate[i].r = "ok"}) = NInputs

InUpdate ==
    pc \in {"poll_event", "wait_frame", "get_time", "sync_actions",
            "locate_hmd", "left", "right"}

\* C12: a tick whose update() completes hands the payload to send_dict exactly
\* once, after the update() and the build and before the next update(); a tick
\* whose update() did not complete hands over nothing.
C12_OneSendPerCompletedTick ==
    /\ CountOp(ThisUpdate, "send_dict") <= 1
    /\ CountOp(ThisUpdate, "send_dict") = 1
       => /\ UpdateCompleted
          /\ log[Len(log)].op = "send_dict"
          /\ pc \in {"loop", "raised"}
    /\ (InUpdate \/ pc \in {"build", "send"})
       => /\ CountOp(ThisUpdate, "send_dict") = 0
          /\ CountOp(log, "send_dict") = tick - 1
    /\ (pc = "loop" /\ tick > 0)
       => /\ LastCallIs("send_dict", "ok")
          /\ CountOp(log, "send_dict") = tick
    /\ (pc = "raised" /\ UpdateCompleted) => LastCallIs("send_dict", "raise")
    /\ pc \in {"build", "send"} => UpdateCompleted

\* two ticks have completed, each with its send
C12_Witness ==
    /\ tick = 2
    /\ pc = "loop"
    /\ CountOp(log, "send_dict") = 2

\* self.session when call number i of the log was issued
HandleAt(i) ==
    IF \E k \in 1..(i - 1) : log[k].op = "destroy_session" /\ log[k].r = "ok"
    THEN NULL ELSE SESSION

FrameOps == {"wait_frame", "sync_actions", "locate_space"}

\* C13: a drained READY is followed by begin_session on the session handle
\* before any wait_frame, sync_actions or locate_space issued after the poll,
\* in the same update() or a later one.
C13_BeginBeforeFrameCalls ==
    \A i \in DOMAIN log :
        (log[i].op = "poll_event" /\ log[i].r = "READY")
        => \E k \in DOMAIN log :
              /\ k > i
              /\ log[k].op = "begin_session"
              /\ log[k].sess = HandleAt(k)
              /\ \A j \in DOMAIN log :
                    (j > i /\ log[j].op \in FrameOps) => k < j

\* READY was drained in the first update(), and the second update() has
\* issued its locate_space calls
C13_Witness ==
    /\ tick = 2
    /\ \E i \in 1..updStart : log[i].op = "poll_event" /\ log[i].r = "READY"
    /\ \E j \in DOMAIN ThisUpdate :
          ThisUpdate[j].op = "locate_space" /\ ThisUpdate[j].who = "right"
    /\ \E j \in 1..updStart : log[j].op = "wait_frame"

DrainOps == {"poll_event", "begin_session", "destroy_session"}

IsDrainCall(e) == e.op \in DrainOps

IsSamplingCall(e) == e.op \notin DrainOps /\ e.op # "send_dict"

\* the calls of this update() that follow its drain
AfterDrain == SelectSeq(ThisUpdate, IsSamplingCall)

\* the order the claim gives, as <<call, target>> pairs
ClaimedOrder ==
    <<  <<"wait_frame", "-">>, <<"performance_counter.get", "-">>,
        <<"sync_actions", "-">>, <<"locate_space", "hmd">>,
        <<"locate_space", "left">> >>
    \o [i \in 1..NInputs |-> <<InputOps[i], "left">>]
    \o << <<"locate_space", "right">> >>
    \o [i \in 1..NInputs |-> <<InputOps[i], "right">>]

\* C14: within one update() the calls are the drain, then wait_frame, the time
\* read, sync_actions, the headset locate_space, the left refresh and the right
\* refresh, in this order, and the token read in this tick is the time of the
\* headset query and of both refreshes.
C14_CallOrderAndSharedTime ==
    LET calls == ThisUpdate
        drained == Len(SelectSeq(calls, IsDrainCall))
        sampled == SelectSeq(calls, IsSamplingCall)
        order == ClaimedOrder
    IN /\ \A i \in 1..drained : calls[i].op \in DrainOps
       /\ Len(sampled) <= Len(order)
       /\ \A i \in DOMAIN sampled :
             /\ <<sampled[i].op, sampled[i].who>> = order[i]
             /\ sampled[i].op = "locate_space"
                => /\ sampled[i].t = tick
                   /\ sampled[i].t = xr_time_now
       /\ (pc \in {"build", "send"} \/ (pc = "loop" /\ tick > 0))
          => Len(sampled) = Len(order)

\* the second update() has drained an event and issued all its calls
C14_Witness ==
    /\ tick = 2
    /\ pc = "build"
    /\ Len(AfterDrain) = Len(ClaimedOrder)
    /\ ThisUpdate[1].op = "poll_event" /\ ThisUpdate[1].r = "READY"
    /\ \A i \in DOMAIN AfterDrain :
          AfterDrain[i].op = "locate_space" => AfterDrain[i].t = 2

IsPolledEvent(e) == e.op = "poll_event" /\ e.r \notin {"raise", "EventUnavailable"}

\* the names of the events poll_event has handed over so far, in order
PolledNames ==
    LET polls == SelectSeq(log, IsPolledEvent)
    IN [i \in DOMAIN polls |-> polls[i].r]

NamesOf(events) == [i \in DOMAIN events |-> EventName(events[i])]

\* the session states polled so far, in order
PolledStates ==
    LET polls == SelectSeq(log, IsSessionStatePoll)
    IN [i \in DOMAIN polls |-> polls[i].r]

\* C15: the drain takes the pending events in queue order, one transition per
\* event, until poll_event signals EventUnavailable; the signal is caught in
\* update(), and wait_frame is called only after it.
C15_DrainUntilEventUnavailable ==
    /\ PolledNames \o NamesOf(queue) = NamesOf(produced)
    /\ session_state =
          IF PolledStates = <<>> THEN "UNKNOWN" ELSE PolledStates[Len(PolledStates)]
    /\ pc = "wait_frame"
       => queue = <<>> /\ LastCallIs("poll_event", "EventUnavailable")
    /\ LastCallIs("poll_event", "EventUnavailable") => pc = "wait_frame"
    /\ \A i \in DOMAIN log :
          log[i].op = "wait_frame"
          => /\ i > 1
             /\ log[i - 1].op = "poll_event"
             /\ log[i - 1].r = "EventUnavailable"
    /\ \A i \in DOMAIN ThisUpdate : \A j \in DOMAIN ThisUpdate :
          (i < j /\ ThisUpdate[i].r = "EventUnavailable")
          => ThisUpdate[j].op \notin DrainOps

\* one update() has drained two different events and reached wait_frame
C15_Witness ==
    /\ pc = "get_time"
    /\ Len(ThisUpdate) >= 4
    /\ IsPolledEvent(ThisUpdate[1])
    /\ \E i \in 2..3 : IsPolledEvent(ThisUpdate[i]) /\ ThisUpdate[i].r # ThisUpdate[1].r
    /\ ThisUpdate[Len(ThisUpdate) - 1].r = "EventUnavailable"
    /\ queue = <<>>

\* destroy_session has returned at least once
Destroyed == \E i \in DOMAIN log : log[i].op = "destroy_session" /\ log[i].r = "ok"

\* C16: the handle is non-null until the first STOPPING is applied; applying
\* STOPPING calls destroy_session on the handle and sets it to None, and it
\* stays None from then on, whatever is drained or done later.
C16_HandleNullAfterStopping ==
    /\ session \in {SESSION, NULL}
    /\ session = NULL <=> Destroyed
    /\ \A i \in DOMAIN log :
          (log[i].op = "poll_event" /\ log[i].r = "STOPPING")
          => /\ i + 1 \in DOMAIN log
             /\ log[i + 1].op = "destroy_session"
             /\ log[i + 1].sess = HandleAt(i + 1)
    /\ \A i \in DOMAIN log : \A j \in DOMAIN log :
          (i < j /\ log[i].op = "destroy_session" /\ log[i].r = "ok")
          => log[j].sess # SESSION
    /\ \A j \in DOMAIN log :
          (log[j].op \in {"wait_frame", "sync_actions"} /\ ~ Destroyed)
          => log[j].sess = SESSION

\* STOPPING was applied in the first tick, READY was drained after it, and the
\* second tick has sampled with the handle still None
C16_Witness ==
    /\ tick = 2
    /\ session = NULL
    /\ \E i \in 1..updStart : \E j \in DOMAIN log :
          /\ log[i].op = "destroy_session" /\ log[i].r = "ok" /\ log[i].sess = SESSION
          /\ i < j /\ log[j].op = "poll_event" /\ log[j].r = "READY"
    /\ \E j \in DOMAIN ThisUpdate :
          ThisUpdate[j].op = "sync_actions" /\ ThisUpdate[j].sess = NULL

\* C17: over any sequence of session-state events destroy_session is called at
\* most once, and never with None as its argument.
C17_DestroyOnceNeverNull ==
    /\ CountOp(log, "destroy_session") <= 1
    /\ \A i \in DOMAIN log : log[i].op = "destroy_session" => log[i].sess # NULL

\* C18: once the STOPPING handler has destroyed the session and set the handle
\* to None, update() goes on: the drain ends and wait_frame is called with
\* None, and the loop starts further update() calls whatever the handle is.
C18_WaitFrameOnClearedHandle ==
    /\ LastCallIs("poll_event", "EventUnavailable")
       => pc = "wait_frame" /\ ENABLED WaitFrame
    /\ \A i \in DOMAIN log :
          (log[i].op = "poll_event" /\ log[i].r = "EventUnavailable" /\ i < Len(log))
          => /\ log[i + 1].op = "wait_frame"
             /\ log[i + 1].sess = HandleAt(i + 1)
    /\ (pc = "loop" /\ tick < MaxTicks) => ENABLED LoopIter

\* the first update() applied STOPPING and called wait_frame(None); the loop
\* has started a second update(), which called wait_frame(None) again
C18_Witness ==
    /\ tick = 2
    /\ \E i \in 1..updStart : \E j \in 1..updStart :
          /\ i < j
          /\ log[i].op = "destroy_session" /\ log[i].r = "ok"
          /\ log[j].op = "wait_frame" /\ log[j].sess = NULL
    /\ \E j \in DOMAIN ThisUpdate :
          ThisUpdate[j].op = "wait_frame" /\ ThisUpdate[j].sess = NULL

SamplingOps ==
    {"wait_frame", "performance_counter.get", "sync_actions", "locate_space",
     "get_action_state_boolean", "get_action_state_float"}

FailedSampling(e) == e.op \in SamplingOps /\ e.r # "ok"

\* C19: an error raised in wait_frame, the time read, sync_actions, a
\* locate_space or an input query leaves update() and the loop uncaught: the
\* failed call is the last call made (no retry, no send), and the payload is
\* not rebuilt in that tick.
C19_SamplingErrorPropagates ==
    /\ [](\A i \in DOMAIN log :
            FailedSampling(log[i])
            => /\ i = Len(log)
               /\ i > updStart
               /\ pc = "raised"
               /\ CountOp(ThisUpdate, "send_dict") = 0)
    /\ [][(InUpdate \/ pc = "raised") => controller_states' = controller_states]_vars

\* the second tick failed in an input query of the right controller, with the
\* payload of the first tick still in place
C19_Witness ==
    /\ tick = 2
    /\ pc = "raised"
    /\ FailedSampling(log[Len(log)])
    /\ log[Len(log)].who = "right"
    /\ log[Len(log)].op # "locate_space"
    /\ controller_states # controller_states_init

\* the step polls an event that is neither READY nor STOPPING
PollsOtherEvent ==
    /\ Len(log') > Len(log)
    /\ LET e == log'[Len(log) + 1]
       IN IsPolledEvent(e) /\ e.r \notin {"READY", "STOPPING"}

\* C20: in the drain only READY and STOPPING lead to a collaborator call,
\* begin_session and destroy_session respectively; an event of any other state
\* or type leads to neither and leaves the handle as it is.
C20_OnlyReadyAndStoppingAct ==
    /\ [](\A i \in DOMAIN log :
            /\ log[i].op = "begin_session"
               => i > 1 /\ log[i - 1].op = "poll_event" /\ log[i - 1].r = "READY"
            /\ log[i].op = "destroy_session"
               => i > 1 /\ log[i - 1].op = "poll_event" /\ log[i - 1].r = "STOPPING"
            /\ (IsPolledEvent(log[i]) /\ log[i].r \notin {"READY", "STOPPING"}
                /\ i < Len(log))
               => log[i + 1].op \notin {"begin_session", "destroy_session"})
    /\ [][PollsOtherEvent
          => /\ session' = session
             /\ Len(log') = Len(log) + 1]_vars

\* one drain has handled EXITING and an event of another type, and the handle
\* is the one of construction
C20_Witness ==
    /\ pc = "wait_frame"
    /\ session = SESSION
    /\ \E i \in DOMAIN ThisUpdate : \E j \in DOMAIN ThisUpdate :
          /\ i < j
          /\ IsPolledEvent(ThisUpdate[i]) /\ IsPolledEvent(ThisUpdate[j])
          /\ {ThisUpdate[i].r, ThisUpdate[j].r}
                = {"EXITING", "EVENT_DATA_INTERACTION_PROFILE_CHANGED"}

\* the update() in progress (or the latest one) has ended its drain
DrainFinished ==
    \E i \in DOMAIN ThisUpdate :
        ThisUpdate[i].op = "poll_event" /\ ThisUpdate[i].r = "EventUnavailable"

\* C21: an update() that has ended its drain calls wait_frame exactly once,
\* before the time read, whatever session_state is; the call is never skipped.
C21_WaitFrameOncePerUpdate ==
    LET calls == ThisUpdate
        waits == CountOp(calls, "wait_frame")
    IN /\ waits <= 1
       /\ (DrainFinished /\ pc # "wait_frame") => waits = 1
       /\ ~ DrainFinished => waits = 0
       /\ CountOp(log, "wait_frame") =
             Cardinality({i \in DOMAIN log : log[i].r = "EventUnavailable"})
             - (IF pc = "wait_frame" THEN 1 ELSE 0)
       /\ \A i \in DOMAIN log :
             log[i].op = "performance_counter.get"
             => i > 1 /\ log[i - 1].op = "wait_frame" /\ log[i - 1].r = "ok"

\* an update() with nothing to drain and session_state still UNKNOWN has
\* called wait_frame and read the time
C21_Witness ==
    /\ session_state = "UNKNOWN"
    /\ pc = "sync_actions"
    /\ Len(ThisUpdate) = 3
    /\ ThisUpdate[1].r = "EventUnavailable"
    /\ ThisUpdate[2].op = "wait_frame"
    /\ ThisUpdate[3].op = "performance_counter.get"

\* C22: update() replaces the stored headset position and orientation by the
\* sample's when the sample carries the position-valid flag and leaves both as
\* they were otherwise; the headset snapshot has no other field.
C22_HeadsetStalenessRule ==
    /\ [](DOMAIN hmd = {"_hmd_position", "_hmd_orientation"})
    /\ [][(pc = "locate_hmd" /\ last'.who = "hmd")
          => IF "POSITION_VALID" \in last'.location_flags
             THEN /\ hmd'._hmd_position = last'.pose.position
                  /\ hmd'._hmd_orientation = last'.pose.orientation
             ELSE hmd' = hmd]_vars
    /\ [][pc # "locate_hmd" => hmd' = hmd]_vars

\* an untracked headset sample of pose B has left the pose A of the tick before
C22_Witness ==
    /\ tick = 2
    /\ pc = "left"
    /\ last.who = "hmd"
    /\ "POSITION_VALID" \notin last.location_flags
    /\ last.pose = PoseB
    /\ hmd._hmd_position = PoseA.position
    /\ hmd._hmd_orientation = PoseA.orientation

\* C23: sampling and publishing do not overlap: the snapshots are written only
\* inside update(), the payload is built from them only after update() has
\* run to its end, nothing writes them from the build up to the send, and the
\* next update() starts only after the send has returned.
C23_SampleThenPublish ==
    /\ [](pc \in {"build", "send"} => UpdateCompleted)
    /\ [][(ctrl' # ctrl \/ hmd' # hmd) => pc \in {"locate_hmd", "left", "right"}]_vars
    /\ [][controller_states' # controller_states => pc = "build"]_vars
    /\ [][tick' # tick
          => /\ pc = "loop"
             /\ tick > 0 => LastCallIs("send_dict", "ok")]_vars

\* the second tick has sampled and built its payload, and its send is pending
C23_Witness ==
    /\ tick = 2
    /\ pc = "send"
    /\ UpdateCompleted
    /\ CountOp(log, "send_dict") = 1
    /\ controller_states["left"].trigger = trigger("left").val

ReleaseOps == {"destroy_action_set", "destroy_instance"}

\* C24: the loop has no exit condition: after a tick whose calls all returned
\* the next tick starts, whatever the state is, and a started tick goes on;
\* the loop ends only by an exception, after which nothing more is done, in
\* particular no destroy_action_set and no destroy_instance.
C24_LoopEndsOnlyByException ==
    /\ (pc = "loop" /\ tick > 0) => LastCallIs("send_dict", "ok")
    /\ (pc = "loop" /\ tick < MaxTicks) => ENABLED LoopIter
    /\ pc \notin {"loop", "raised"} => ENABLED SessionNext
    /\ pc = "raised"
       => /\ log[Len(log)].r \in {"raise", "TypeError"}
          /\ ~ ENABLED SessionNext
    /\ \A i \in DOMAIN log : log[i].op \notin ReleaseOps

\* a tick has completed after STOPPING was applied and the next tick has
\* started; it ended in an exception
C24_Witness ==
    /\ tick = 2
    /\ pc = "raised"
    /\ session = NULL
    /\ session_state = "STOPPING"
    /\ log[updStart].op = "send_dict"
    /\ log[Len(log)].op = "sync_actions"

\* C25: on either platform get() returns a token when the runtime's conversion
\* reports success and raises only the conversion's error.
C25_SameTimeCapability ==
    /\ pc = "get_time"
       => \A result \in Outcomes : PerformanceCounter_get(platform, result) = result
    /\ \A i \in DOMAIN log :
          log[i].op = "performance_counter.get" => log[i].r \in Outcomes

\* C26: when exit() has completed and no STOPPING was ever applied, the
\* session has been released, and exit() has released the action set and then
\* the instance, each once.
C26_ExitReleasesSession ==
    pc = "exited"
    => /\ (\A i \in DOMAIN log : log[i].r # "STOPPING")
          => \E i \in DOMAIN log :
                log[i].op = "destroy_session" /\ log[i].sess = SESSION
       /\ CountOp(log, "destroy_action_set") = 1
       /\ CountOp(log, "destroy_instance") = 1
       /\ log[Len(log) - 1].op = "destroy_action_set"
       /\ log[Len(log)].op = "destroy_instance"

\* position and orientation as a controller or the headset holds them at
\* construction
InitialPose == [position |-> Vector3f, orientation |-> Quaternionf]

\* the pair comes from one sample of the runtime, or is the initial pair
FromOneSample(pos, ori) ==
    \E p \in {s.pose : s \in SpaceLocations} \cup {InitialPose} :
        pos = p.position /\ ori = p.orientation

\* C27: position and orientation of a snapshot always come from the same
\* sample: a refresh replaces both when the sample is position-valid, whatever
\* its orientation-valid bit is, and neither otherwise.
C27_PoseFromOneSample ==
    /\ [](/\ \A c \in Controllers : FromOneSample(position(c), orientation(c))
          /\ FromOneSample(hmd._hmd_position, hmd._hmd_orientation))
    /\ [][\A c \in Controllers :
            (pc = c /\ last'.who = c)
            => IF "POSITION_VALID" \in last'.location_flags
               THEN /\ ctrl'[c]._position = last'.pose.position
                    /\ ctrl'[c]._orientation = last'.pose.orientation
               ELSE /\ ctrl'[c]._position = ctrl[c]._position
                    /\ ctrl'[c]._orientation = ctrl[c]._orientation]_vars

\* the right controller took pose B from a sample that was position-valid but
\* not orientation-valid, and a later orientation-valid, position-invalid
\* sample of pose A replaced neither field
C27_Witness ==
    /\ tick = 2
    /\ pc = "build"
    /\ last.who = "right"
    /\ last.location_flags = {"ORIENTATION_VALID"}
    /\ last.pose = PoseA
    /\ position("right") = PoseB.position
    /\ orientation("right") = PoseB.orientation

\* C28: session_state is UNKNOWN after construction and later the state of the
\* most recently drained session-state-changed event; an event of another type
\* and a tick with an empty queue leave it as it is.
C28_SessionStateTracksLastEvent ==
    /\ [](LET states == PolledStates
          IN session_state =
                IF states = <<>> THEN "UNKNOWN" ELSE states[Len(states)])
    /\ [][session_state' # session_state
          => /\ pc = "poll_event"
             /\ Len(log') > Len(log)
             /\ IsSessionStatePoll(log'[Len(log) + 1])
             /\ log'[Len(log) + 1].r = session_state']_vars

\* EXITING and an event of another type were drained in the first tick; the
\* second tick found the queue empty
C28_Witness ==
    /\ tick = 2
    /\ pc = "wait_frame"
    /\ Len(ThisUpdate) = 1
    /\ PolledNames = <<"EXITING", "EVENT_DATA_INTERACTION_PROFILE_CHANGED">>
    /\ session_state = "EXITING"

IsInputQuery(e) == e.op \in {"get_action_state_boolean", "get_action_state_float"}

\* C29: sampling does not depend on the session state: every update() that
\* returns has issued wait_frame, sync_actions, the headset locate_space and
\* both controller refreshes, also when no READY was ever drained and
\* begin_session was never called.
C29_SamplingNotGatedOnState ==
    /\ pc = "wait_frame" => ENABLED WaitFrame
    /\ pc = "sync_actions" => ENABLED SyncActions
    /\ pc = "locate_hmd" => ENABLED LocateHmd(TrackedLocations)
    /\ \A c \in Controllers :
          pc = c => ENABLED ControllerUpdate(c, TrackedLocations, {FrameA}, {NInputs})
    /\ pc \in {"build", "send"}
       => LET calls == ThisUpdate
          IN /\ CountOp(calls, "wait_frame") = 1
             /\ CountOp(calls, "sync_actions") = 1
             /\ \A who \in {"hmd"} \cup Controllers :
                   \E i \in DOMAIN calls :
                      calls[i].op = "locate_space" /\ calls[i].who = who
             /\ \A c \in Controllers :
                   Cardinality({i \in DOMAIN calls :
                                  IsInputQuery(calls[i]) /\ calls[i].who = c}) = NInputs

\* an update() has returned with session_state UNKNOWN and begin_session never
\* called; its queries went to the session created at construction
C29_Witness ==
    /\ pc = "build"
    /\ session_state = "UNKNOWN"
    /\ CountOp(log, "begin_session") = 0
    /\ \E i \in DOMAIN ThisUpdate :
          /\ IsInputQuery(ThisUpdate[i])
          /\ ThisUpdate[i].who = "right"
          /\ ThisUpdate[i].sess = SESSION
    /\ \E i \in DOMAIN ThisUpdate :
          ThisUpdate[i].op = "sync_actions" /\ ThisUpdate[i].sess = SESSION

\* C30: a tick that fails part-way is not rolled back: when input query n+1 of
\* a controller raises, the pose (if the sample was position-valid) and the
\* first n inputs hold the values of this refresh, the inputs not reached hold
\* what they held before, and the other snapshots keep what this tick or the
\* tick before gave them; nothing is undone afterwards.
C30_FailedTickNotRolledBack ==
    /\ [][\A c \in Controllers :
            (pc = c /\ last'.who = c /\ last'.n < NInputs)
            => /\ pc' = "raised"
               /\ \A i \in 1..NInputs :
                     ctrl'[c][InputFields[i]] =
                        IF i <= last'.n
                        THEN ActionState(last'.frame[InputFields[i]])
                        ELSE ctrl[c][InputFields[i]]
               /\ "POSITION_VALID" \in last'.location_flags
                  => /\ ctrl'[c]._position = last'.pose.position
                     /\ ctrl'[c]._orientation = last'.pose.orientation
               /\ \A d \in Controllers \ {c} : ctrl'[d] = ctrl[d]
               /\ hmd' = hmd]_vars
    /\ [][pc = "raised" => (ctrl' = ctrl /\ hmd' = hmd)]_vars
    /\ [][(pc \in {"locate_hmd", "left", "right"} /\ pc' = "raised" /\ last' = last)
          => (ctrl' = ctrl /\ hmd' = hmd)]_vars

\* the second tick failed in the fourth input query of the right controller:
\* its first three inputs are those of frame B, the others those of frame A,
\* polled in the first tick
C30_Witness ==
    /\ tick = 2
    /\ pc = "raised"
    /\ last.who = "right"
    /\ last.n = 3
    /\ last.frame = FrameB
    /\ trackpad_x("right") = Returned(FrameB._trackpad_x)
    /\ trigger("right") = Returned(FrameA._trigger)
    /\ trackpad_button("right") = Returned(FrameA._trackpad_button)

====
